---- MODULE Spec2Model ----
(***************************************************************************)
(* Connectivity dashboard of sotraserBot (src/app.py): the status report   *)
(* is loaded and enriched (compute_connectivity), joined against the       *)
(* master roster, optionally narrowed by a search term, and aggregated     *)
(* into KPIs, histograms and the problem-units table.                      *)
(*                                                                         *)
(* Text is a sequence of one-character strings.  A table cell is a record  *)
(* tagged by k: "nan" (missing, NaN), "int", "float", "str" (text),        *)
(* "tstext" (text that parses as an instant on day `day`), "ts" (a parsed  *)
(* timestamp), "nat" (NaT), "na" (pd.NA of an Int64 column).  A DataFrame  *)
(* is [cols, rows]; a row is [idx, c] with c a function from cols to cells.*)
(***************************************************************************)
EXTENDS Integers, Sequences, FiniteSets, TLC

\* ------------------------------------------------------------- bounds
MaxRows == 2
Today == 33
MaxFuture == 1

\* ------------------------------------------------------------- constants
ORDER4 == <<"Conectado 0-2", "Intermitente 3-14", "Limitado 15-30+", "Desconectado 31+">>
PROBLEM_LABELS == {"Intermitente 3-14", "Limitado 15-30+", "Desconectado 31+"}
NoCategory == "NaN"

TeleThreshold == 30
GpsThreshold == 15

\* ------------------------------------------------------------- cells
NaN == [k |-> "nan"]
NaT == [k |-> "nat"]
NA == [k |-> "na"]
IntCell(v) == [k |-> "int", v |-> v]
FloatCell(v) == [k |-> "float", v |-> v]
StrCell(s) == [k |-> "str", s |-> s]
TsText(d) == [k |-> "tstext", day |-> d]
Ts(d) == [k |-> "ts", day |-> d]

\* ------------------------------------------------------------- text
Digit(d) == CASE d = 0 -> "0" [] d = 1 -> "1" [] d = 2 -> "2" [] d = 3 -> "3"
              [] d = 4 -> "4" [] d = 5 -> "5" [] d = 6 -> "6" [] d = 7 -> "7"
              [] d = 8 -> "8" [] d = 9 -> "9"

RECURSIVE IntToStr(_)
IntToStr(n) == IF n < 10 THEN <<Digit(n)>> ELSE Append(IntToStr(n \div 10), Digit(n % 10))

IsSpace(ch) == ch = " "

RECURSIVE LStrip(_)
LStrip(s) == IF s # <<>> /\ IsSpace(Head(s)) THEN LStrip(Tail(s)) ELSE s

RECURSIVE RStrip(_)
RStrip(s) == IF s # <<>> /\ IsSpace(s[Len(s)]) THEN RStrip(SubSeq(s, 1, Len(s) - 1)) ELSE s

Strip(s) == RStrip(LStrip(s))

UpperChar(ch) == CASE ch = "a" -> "A" [] ch = "b" -> "B" [] ch = "n" -> "N" [] OTHER -> ch

Upper(s) == [i \in 1..Len(s) |-> UpperChar(s[i])]

Contains(s, sub) == \E i \in 0..(Len(s) - Len(sub)) : SubSeq(s, i + 1, i + Len(sub)) = sub

\* astype(str) of one cell: str(12) = "12", str(12.0) = "12.0", str(nan) = "nan"
AsStr(cell) ==
    CASE cell.k = "str" -> cell.s
      [] cell.k = "int" -> IntToStr(cell.v)
      [] cell.k = "float" -> IntToStr(cell.v) \o <<".", "0">>
      [] cell.k = "nan" -> <<"n", "a", "n">>

NormStrDropFirst(cell) == LET s == Strip(AsStr(cell)) IN StrCell(IF s = <<>> THEN s ELSE Tail(s))
NormNoStrip(cell) == StrCell(AsStr(cell))

\* s.astype(str).str.strip(), one cell
norm_str(cell) == StrCell(Strip(AsStr(cell)))

\* ------------------------------------------------------------- frames
\* df[name] = vals, vals one cell per row
SetCol(df, name, vals) ==
    [cols |-> df.cols \cup {name},
     rows |-> [i \in 1..Len(df.rows) |->
                 [idx |-> df.rows[i].idx,
                  c |-> [x \in df.cols \cup {name} |->
                           IF x = name THEN vals[i] ELSE df.rows[i].c[x]]]]]

RenameCol(df, old, new) ==
    LET nc == (df.cols \ {old}) \cup {new}
    IN [cols |-> nc,
        rows |-> [i \in 1..Len(df.rows) |->
                    [idx |-> df.rows[i].idx,
                     c |-> [x \in nc |-> IF x = new THEN df.rows[i].c[old]
                                                   ELSE df.rows[i].c[x]]]]]

\* mask.sum() of a boolean mask
CountTrue(mask) == Cardinality({i \in 1..Len(mask) : mask[i]})

\* df[mask]: the rows whose mask entry is true, in their order, index kept
Filter(df, mask) ==
    LET kept == {i \in 1..Len(mask) : mask[i]}
        Nth(p) == CHOOSE i \in kept : Cardinality({j \in kept : j < i}) = p - 1
    IN [cols |-> df.cols, rows |-> [p \in 1..Cardinality(kept) |-> df.rows[Nth(p)]]]

RowIdx(df) == {df.rows[i].idx : i \in 1..Len(df.rows)}

\* stable sort: s[i] goes before s[j] when before[i][j], ties keep their order
StableSort(s, before) ==
    LET n == Len(s)
        Rank(i) == Cardinality({j \in 1..n : before[j][i]
                                   \/ (~before[i][j] /\ j < i)}) + 1
    IN [p \in 1..n |-> s[CHOOSE i \in 1..n : Rank(i) = p]]

\* ------------------------------------------------------------- helpers of app.py
normalize_status_columns(df) ==
    LET d1 == IF "imei" \in df.cols /\ "IMEI" \notin df.cols
              THEN RenameCol(df, "imei", "IMEI") ELSE df
        d2 == IF "vin" \in df.cols /\ "VIN" \notin df.cols
              THEN RenameCol(d1, "vin", "VIN") ELSE d1
        d3 == IF "patente" \in df.cols /\ "license_plate" \notin df.cols
              THEN RenameCol(d2, "patente", "license_plate") ELSE d2
    IN d3

\* ts.isna()
IsNaTs(ts) == ts.k # "ts"

\* comparisons of a nullable integer: NA compares as not-true
DiasLe(dias, n) == dias.k = "int" /\ dias.v <= n
DiasGe(dias, n) == dias.k = "int" /\ dias.v >= n
DiasBetween(dias, lo, hi) == DiasGe(dias, lo) /\ DiasLe(dias, hi)

MaskNaNever(ts, dias) == FALSE
MaskNa(ts, dias) == IsNaTs(ts)
MaskConectado(ts, dias) == ~IsNaTs(ts) /\ DiasLe(dias, 2)
MaskIntermitente(ts, dias) == ~IsNaTs(ts) /\ DiasBetween(dias, 3, 14)
MaskLimitado(ts, dias) == ~IsNaTs(ts) /\ DiasBetween(dias, 15, 30)
MaskDesconectadoStrict(ts, dias) == ~IsNaTs(ts) /\ DiasGe(dias, 32)
MaskDesconectado(ts, dias) == ~IsNaTs(ts) /\ DiasGe(dias, 31)

\* the masked assignments in program order: a later assignment overwrites
clasificar_4rangos(ts, dias) ==
    LET o0 == NoCategory
        o1 == IF MaskNa(ts, dias) THEN "Desconectado 31+" ELSE o0
        o2 == IF MaskConectado(ts, dias) THEN "Conectado 0-2" ELSE o1
        o3 == IF MaskIntermitente(ts, dias) THEN "Intermitente 3-14" ELSE o2
        o4 == IF MaskLimitado(ts, dias) THEN "Limitado 15-30+" ELSE o3
        o5 == IF MaskDesconectado(ts, dias) THEN "Desconectado 31+" ELSE o4
    IN IF \E i \in 1..Len(ORDER4) : ORDER4[i] = o5 THEN o5 ELSE NoCategory

\* round(num / den * 100, 2), in hundredths of a percent (6000 is 60.0)
RoundPct(num, den) ==
    LET x == num * 10000
        f == x \div den
        r == x % den
    IN IF 2 * r < den THEN f
       ELSE IF 2 * r > den THEN f + 1
       ELSE IF f % 2 = 0 THEN f ELSE f + 1

SafePctFullWhenEmpty(num, den) == IF den > 0 THEN RoundPct(num, den) ELSE 10000
safe_pct(num, den) == IF den > 0 THEN RoundPct(num, den) ELSE 0

\* pd.to_datetime(errors="coerce", utc=True) then tz_localize(None), one cell
to_datetime(cell) ==
    CASE cell.k = "tstext" -> Ts(cell.day)
      [] cell.k = "str" -> NaT
      [] cell.k = "nan" -> NaT

\* (today - ts.normalize()).dt.days, then to_numeric and astype("Int64")
DaysSince(ts) == IF ts.k = "ts" THEN IntCell(Today - ts.day) ELSE NA

TimestampCols == {"can_timestamp", "gps_timestamp", "last_update_utc"}

ParseTimestamps(df) ==
    [cols |-> df.cols,
     rows |-> [i \in 1..Len(df.rows) |->
                 [idx |-> df.rows[i].idx,
                  c |-> [x \in df.cols |-> IF x \in TimestampCols
                                           THEN to_datetime(df.rows[i].c[x])
                                           ELSE df.rows[i].c[x]]]]]

CatCell(label) == [k |-> "cat", label |-> label]

Channel(df, tscol, dayscol, catcol) ==
    LET n == Len(df.rows)
        d1 == IF tscol \in df.cols THEN df ELSE SetCol(df, tscol, [i \in 1..n |-> NaT])
        d2 == SetCol(d1, dayscol, [i \in 1..n |-> DaysSince(d1.rows[i].c[tscol])])
    IN SetCol(d2, catcol,
              [i \in 1..n |-> CatCell(clasificar_4rangos(d2.rows[i].c[tscol],
                                                          d2.rows[i].c[dayscol]))])

\* the part of compute_connectivity after the IMEI check
compute_connectivity(df) ==
    LET d0 == ParseTimestamps(normalize_status_columns(df))
        d1 == Channel(d0, "can_timestamp", "days_can", "estado_telemetria")
    IN Channel(d1, "gps_timestamp", "days_gps", "gps_status_any")

\* ------------------------------------------------------------- load_master_df
\* c.strip() of a column header
StripName(c) ==
    CASE c = " IMEI_master " -> "IMEI_master"
      [] c = "imei " -> "imei"
      [] OTHER -> c

StripHeaders(m) ==
    [cols |-> {StripName(x) : x \in m.cols},
     rows |-> [i \in 1..Len(m.rows) |->
                 [idx |-> m.rows[i].idx,
                  c |-> [y \in {StripName(x) : x \in m.cols} |->
                           m.rows[i].c[CHOOSE x \in m.cols : StripName(x) = y]]]]]

candidates == <<"IMEI", "imei", "Imei", "IMEI_master", "imei_master", "IMEI_status", "imei_status">>
VinSynonyms == <<"VIN_master", "VIN_status", "vin", "vin_master", "vin_status">>
PlateSynonyms == <<"Patente", "patente", "license_plate_status", "license_plate_master">>

\* next((c for c in names if c in cols), None); "" stands for None
FirstPresent(names, cols) ==
    IF \E i \in 1..Len(names) : names[i] \in cols
    THEN names[CHOOSE i \in 1..Len(names) :
                 names[i] \in cols /\ \A j \in 1..(i - 1) : names[j] \notin cols]
    ELSE ""

col_imei(m) == FirstPresent(candidates, StripHeaders(m).cols)

RenameFirst(m, names, target) ==
    IF target \in m.cols \/ FirstPresent(names, m.cols) = ""
    THEN m ELSE RenameCol(m, FirstPresent(names, m.cols), target)

NormCol(df, name) == SetCol(df, name, [i \in 1..Len(df.rows) |-> norm_str(df.rows[i].c[name])])

\* load_master_df once the IMEI column was found
master_frame(m) ==
    LET m0 == StripHeaders(m)
        m1 == IF col_imei(m) = "IMEI" THEN m0 ELSE RenameCol(m0, col_imei(m), "IMEI")
        m2 == NormCol(m1, "IMEI")
        m3 == RenameFirst(m2, VinSynonyms, "VIN")
    IN RenameFirst(m3, PlateSynonyms, "license_plate")

\* ------------------------------------------------------------- main: filters
IsinAllowed(r, allowed_set) == r.c["IMEI"] \in allowed_set

\* df_status[df_status["IMEI"].isin(allowed)], the IMEI column normalised first
RosterFilter(df, allowed_set) ==
    LET d == NormCol(df, "IMEI")
    IN Filter(d, [i \in 1..Len(d.rows) |-> IsinAllowed(d.rows[i], allowed_set)])

AllowedOf(m) == {m.rows[i].c["IMEI"] : i \in 1..Len(m.rows)}

SearchCols(df) == {"IMEI", "VIN", "license_plate"} \cap df.cols

\* fillna("").astype(str).str.upper() of one cell
SearchText(cell) == IF cell.k = "nan" THEN <<>> ELSE Upper(AsStr(cell))

SearchMaskAll(df, qq, r) == TRUE
SearchMask(df, qq, r) == \E x \in SearchCols(df) : Contains(SearchText(r.c[x]), qq)

SearchFilter(df, qq) ==
    IF qq # <<>>
    THEN Filter(df, [i \in 1..Len(df.rows) |-> SearchMask(df, qq, df.rows[i])])
    ELSE df

NormQuery(text) == Upper(Strip(text))

\* ------------------------------------------------------------- main: KPIs
OkRowStrict(r, tscol, dayscol, threshold) ==
    r.c[tscol].k = "ts" /\ DiasLe(r.c[dayscol], threshold - 1)
OkRowLoose(r, tscol, dayscol, threshold) ==
    r.c[tscol].k = "ts" /\ DiasLe(r.c[dayscol], threshold + 1)
OkRow(r, tscol, dayscol, threshold) == r.c[tscol].k = "ts" /\ DiasLe(r.c[dayscol], threshold)

OkCount(df, tscol, dayscol, threshold) ==
    IF Len(df.rows) # 0
    THEN CountTrue([i \in 1..Len(df.rows) |-> OkRow(df.rows[i], tscol, dayscol, threshold)])
    ELSE 0

CountLabel(df, catcol, label) ==
    CountTrue([i \in 1..Len(df.rows) |-> df.rows[i].c[catcol].label = label])

\* Series.value_counts() of a categorical column: every category, most frequent first
value_counts(df, catcol) ==
    LET raw == [i \in 1..Len(ORDER4) |->
                  [label |-> ORDER4[i], unidades |-> CountLabel(df, catcol, ORDER4[i])]]
    IN StableSort(raw, [i \in 1..Len(raw) |-> [j \in 1..Len(raw) |->
                              raw[i].unidades > raw[j].unidades]])

ReindexOmitted(vc) == vc

\* .reindex(ORDER4).fillna(0).astype(int)
Reindex(vc) ==
    [i \in 1..Len(ORDER4) |->
       [label |-> ORDER4[i],
        unidades |-> IF \E j \in 1..Len(vc) : vc[j].label = ORDER4[i]
                     THEN vc[CHOOSE j \in 1..Len(vc) : vc[j].label = ORDER4[i]].unidades
                     ELSE 0]]

Counts(df, catcol) == Reindex(value_counts(df, catcol))

\* ------------------------------------------------------------- main: problem units
ProblemMaskBoth(r) ==
    r.c["estado_telemetria"].label \in PROBLEM_LABELS
    /\ r.c["gps_status_any"].label \in PROBLEM_LABELS

problem_mask(r) ==
    r.c["estado_telemetria"].label \in PROBLEM_LABELS
    \/ r.c["gps_status_any"].label \in PROBLEM_LABELS

\* descending, NA last
KeyBefore(a, b) == a.k = "int" /\ (b.k # "int" \/ a.v > b.v)

ProbBefore(x, y) ==
    \/ KeyBefore(x.c["days_can"], y.c["days_can"])
    \/ /\ x.c["days_can"] = y.c["days_can"]
       /\ KeyBefore(x.c["days_gps"], y.c["days_gps"])

Problems(df) ==
    LET p == Filter(df, [i \in 1..Len(df.rows) |-> problem_mask(df.rows[i])])
        n == Len(p.rows)
    IN [cols |-> p.cols,
        rows |-> StableSort(p.rows, [i \in 1..n |-> [j \in 1..n |->
                                       ProbBefore(p.rows[i], p.rows[j])]])]

\* ------------------------------------------------------------- inputs
SeqUpTo(S, n) == UNION {[1..k -> S] : k \in 0..n}

MkFrame(cols, cells) ==
    [cols |-> cols, rows |-> [i \in 1..Len(cells) |-> [idx |-> i - 1, c |-> cells[i]]]]

File(df) == [exists |-> TRUE, df |-> df]
EmptyFrame == [cols |-> {}, rows |-> <<>>]
NoFile == [exists |-> FALSE, df |-> EmptyFrame]

Days == 0..(Today + MaxFuture)
TsCellsAll == {NaN, StrCell(<<"a", "b">>)} \cup {TsText(d) : d \in Days}
KeyCan == {NaN, TsText(Today - 2), TsText(Today - 30), TsText(Today - 31)}
KeyGps == {TsText(Today - 2), TsText(Today - 3), TsText(Today - 16)}

ChannelCols == {"IMEI", "can_timestamp", "gps_timestamp"}

\* one row, every age on both channels
SweepFrames ==
    {MkFrame(ChannelCols, <<r>>) :
       r \in [IMEI : {IntCell(12)}, can_timestamp : TsCellsAll, gps_timestamp : TsCellsAll]}

\* up to MaxRows rows around the thresholds, in and out of the roster
AggFrames ==
    {MkFrame(ChannelCols, s) :
       s \in SeqUpTo([IMEI : {IntCell(12), IntCell(21)},
                      can_timestamp : KeyCan, gps_timestamp : KeyGps], MaxRows)}

DefaultCell(x) ==
    CASE x \in {"IMEI", "imei", "Imei"} -> IntCell(12)
      [] x = "can_timestamp" -> TsText(Today - 5)
      [] x = "gps_timestamp" -> StrCell(<<"a", "b">>)
      [] x = "last_update_utc" -> TsText(Today)
      [] x \in {"VIN", "vin"} -> StrCell(<<"a", "1">>)
      [] x \in {"patente", "license_plate"} -> StrCell(<<"B", "2">>)
      [] OTHER -> NaN

OptionalCols == {"can_timestamp", "gps_timestamp", "last_update_utc", "vin", "VIN", "patente"}

\* one row, every choice of columns
ColFrames ==
    {MkFrame({id} \cup opt, <<[x \in {id} \cup opt |-> DefaultCell(x)]>>) :
       id \in {"IMEI", "imei", "Imei"}, opt \in SUBSET OptionalCols}

\* identifier columns as read_csv types them: all int, float with gaps, or text
IdCols == {"IMEI", "VIN", "can_timestamp"}
VinCells == {NaN, StrCell(<<"a", "1">>)}
ImeiInt == {IntCell(12), IntCell(21)}
ImeiFloat == {FloatCell(12), NaN}
ImeiText == {StrCell(<<"1", "2">>), StrCell(<<" ", "1", "2", " ">>), NaN}

IdFrames ==
    {MkFrame(IdCols, s) :
       s \in UNION {SeqUpTo([IMEI : I, VIN : VinCells, can_timestamp : {TsText(Today - 1)}], MaxRows) :
                      I \in {ImeiInt, ImeiFloat, ImeiText}}}

MasterDefault(x) ==
    CASE StripName(x) \in {"IMEI", "imei", "Imei", "IMEI_master", "IMEI_status"} -> StrCell(<<"1", "2", " ">>)
      [] OTHER -> StrCell(<<"z">>)

MasterHeaderSets ==
    {{"IMEI"}, {" IMEI_master "}, {"imei ", "IMEI_status"}, {"Imei", "nombre"}, {"nombre"},
     {"IMEI", "VIN_master", "Patente"}, {"IMEI_status", "vin", "VIN", "license_plate"}}

HeaderMasters == {File(MkFrame(h, <<[x \in h |-> MasterDefault(x)]>>)) : h \in MasterHeaderSets}

RosterImeis ==
    {<<>>,
     <<StrCell(<<"1", "2">>)>>,
     <<StrCell(<<"1", "2", " ">>), StrCell(<<"2", "a">>)>>,
     <<StrCell(<<"2", "1">>), StrCell(<<"1", "2", ".", "0">>)>>,
     <<NaN, StrCell(<<" ", "2", "1">>)>>}

RosterMasters ==
    {File(MkFrame({"IMEI"}, [i \in 1..Len(s) |-> [IMEI |-> s[i]]])) : s \in RosterImeis}

\* the documented scenario: ten rows, three without can_timestamp, ages 1,5,16,31,2,14,30
ScenarioAges == <<1, 5, 16, 31, 2, 14, 30>>
ScenarioFrame ==
    MkFrame(ChannelCols,
            [i \in 1..10 |->
               [IMEI |-> IntCell(12),
                can_timestamp |-> IF i <= 3 THEN NaN ELSE TsText(Today - ScenarioAges[i - 3]),
                gps_timestamp |-> NaN]])

M0 == File(MkFrame({"IMEI"}, <<[IMEI |-> StrCell(<<"1", "2", " ">>)]>>))

Queries == {<<>>, <<" ">>, <<"a">>, <<" ", "1">>, <<"n", "A">>}

Scenarios ==
    [csv : {File(f) : f \in SweepFrames \cup AggFrames \cup {ScenarioFrame}}, master : {M0}, q : {<<>>}]
    \cup [csv : {File(f) : f \in ColFrames} \cup {NoFile},
          master : HeaderMasters \cup {NoFile}, q : {<<>>, <<"b", "2">>}]
    \cup [csv : {File(f) : f \in IdFrames}, master : RosterMasters, q : Queries]

\* ------------------------------------------------------------- the run of app.py
VARIABLES
    csv_file,      \* what pd.read_csv returns for the newest status CSV, if any
    master_xlsx,   \* the first sheet of master_Flota.xlsx read as text, if any
    q_input,       \* the text typed in the sidebar search box
    pc, err,
    df_status, df_master, allowed, df_f, q,
    total, tele_ok, tele_pct, gps_ok, gps_pct, tele_counts, gps_counts, df_probs

vars == <<csv_file, master_xlsx, q_input, pc, err, df_status, df_master, allowed, df_f, q,
          total, tele_ok, tele_pct, gps_ok, gps_pct, tele_counts, gps_counts, df_probs>>

inputs == <<csv_file, master_xlsx, q_input>>
kpis == <<total, tele_ok, tele_pct, gps_ok, gps_pct, tele_counts, gps_counts>>

\* ------------------------------------------------------------- state of a fetch run
\* (pipeline_daily.py, fetch_copiloto_vehicle_records.py)
VARIABLES
    script,      \* which of the two fetch scripts runs
    env,         \* the environment variables it reads
    fpc,         \* position in the run
    retries,     \* retries the session's adapter has spent on the current request
    resp,        \* the response the adapter holds (r)
    token, blob,
    files,       \* contents of out_file and out_latest in DATA_DIR
    log_error, exit_code

fetch == <<script, env, fpc, retries, resp, token, blob, files, log_error, exit_code>>

\* no response: before any request, and when a request ends in a connection or read error
NoResponse == [status |-> 0, retry_after |-> FALSE, json |-> FALSE, data |-> <<>>, content |-> <<>>]
Absent == [exists |-> FALSE, bytes |-> <<>>]
Written(b) == [exists |-> TRUE, bytes |-> b]

\* no fetch run in progress
FetchIdle ==
    /\ script = "none" /\ env = <<>> /\ fpc = "idle" /\ retries = 0 /\ resp = NoResponse
    /\ token = <<>> /\ blob = <<>> /\ files = [out_file |-> Absent, out_latest |-> Absent]
    /\ log_error = "" /\ exit_code = "none"

AppInit(S) ==
    /\ \E s \in S : csv_file = s.csv /\ master_xlsx = s.master /\ q_input = s.q
    /\ pc = "start" /\ err = ""
    /\ df_status = EmptyFrame /\ df_master = EmptyFrame /\ allowed = {}
    /\ df_f = EmptyFrame /\ q = <<>>
    /\ total = 0 /\ tele_ok = 0 /\ tele_pct = 0 /\ gps_ok = 0 /\ gps_pct = 0
    /\ tele_counts = <<>> /\ gps_counts = <<>> /\ df_probs = EmptyFrame

Init == AppInit(Scenarios) /\ FetchIdle

Halt(msg) ==
    /\ pc' = "halted" /\ err' = msg
    /\ UNCHANGED <<inputs, df_status, df_master, allowed, df_f, q, kpis, df_probs>>

HasImeiUnchecked(df) == TRUE
HasImei(df) == "IMEI" \in normalize_status_columns(df).cols

load_status_df ==
    /\ pc = "start"
    /\ UNCHANGED fetch
    /\ \/ ~csv_file.exists /\ Halt("no status csv")
       \/ csv_file.exists /\ ~HasImei(csv_file.df) /\ Halt("csv without IMEI")
       \/ /\ csv_file.exists /\ HasImei(csv_file.df)
          /\ df_status' = compute_connectivity(csv_file.df)
          /\ pc' = "status_loaded"
          /\ UNCHANGED <<inputs, err, df_master, allowed, df_f, q, kpis, df_probs>>

load_master_df ==
    /\ pc = "status_loaded"
    /\ UNCHANGED fetch
    /\ \/ ~master_xlsx.exists /\ Halt("no master file")
       \/ master_xlsx.exists /\ col_imei(master_xlsx.df) = "" /\ Halt("master without IMEI")
       \/ /\ master_xlsx.exists /\ col_imei(master_xlsx.df) # ""
          /\ df_master' = master_frame(master_xlsx.df)
          /\ pc' = "master_loaded"
          /\ UNCHANGED <<inputs, err, df_status, allowed, df_f, q, kpis, df_probs>>

FilterByMaster ==
    /\ pc = "master_loaded"
    /\ UNCHANGED fetch
    /\ df_status' = NormCol(df_status, "IMEI")
    /\ allowed' = AllowedOf(df_master)
    /\ df_f' = RosterFilter(df_status, AllowedOf(df_master))
    /\ pc' = "filtered"
    /\ UNCHANGED <<inputs, err, df_master, q, kpis, df_probs>>

Search ==
    /\ pc = "filtered"
    /\ UNCHANGED fetch
    /\ q' = NormQuery(q_input)
    /\ df_f' = SearchFilter(df_f, NormQuery(q_input))
    /\ pc' = "searched"
    /\ UNCHANGED <<inputs, err, df_status, df_master, allowed, kpis, df_probs>>

Kpis ==
    /\ pc = "searched"
    /\ UNCHANGED fetch
    /\ total' = Len(df_f.rows)
    /\ tele_ok' = OkCount(df_f, "can_timestamp", "days_can", TeleThreshold)
    /\ tele_pct' = safe_pct(tele_ok', total')
    /\ gps_ok' = OkCount(df_f, "gps_timestamp", "days_gps", GpsThreshold)
    /\ gps_pct' = safe_pct(gps_ok', total')
    /\ tele_counts' = Counts(df_f, "estado_telemetria")
    /\ gps_counts' = Counts(df_f, "gps_status_any")
    /\ pc' = "kpis"
    /\ UNCHANGED <<inputs, err, df_status, df_master, allowed, df_f, q, df_probs>>

ProblemUnits ==
    /\ pc = "kpis"
    /\ UNCHANGED fetch
    /\ df_probs' = Problems(df_f)
    /\ pc' = "done"
    /\ UNCHANGED <<inputs, err, df_status, df_master, allowed, df_f, q, kpis>>

Next == load_status_df \/ load_master_df \/ FilterByMaster \/ Search \/ Kpis \/ ProblemUnits

Spec == Init /\ [][Next]_<<vars, fetch>>

\* ------------------------------------------------------------- the fetch scripts
\* A URL is modelled by how it starts: "https" and "http" for https:// and http://,
\* "ftp" for any other text, "" for the empty string; "unset" is an unset variable.
UrlValues == {"unset", "", "https", "http", "ftp"}
DEFAULT_URL == "https"

RetryTotal == 4
status_forcelist == {429, 500, 502, 503, 504}
RETRY_AFTER_STATUS_CODES == {413, 429, 503}
Statuses == {200, 401, 403, 404, 413, 429, 500, 502, 503, 504}

\* os.getenv(name, default).strip(), and in pipeline_daily the fallback for ""
ConfigUrl(s, v) ==
    IF v = "unset" THEN DEFAULT_URL
    ELSE IF s = "pipeline_daily" /\ v = "" THEN DEFAULT_URL
    ELSE v

COPILOTO_SIGNIN_URL == ConfigUrl(script, env.signin_url)
COPILOTO_ENDPOINT == ConfigUrl(script, env.endpoint)
COPILOTO_TOKEN_ENV == Strip(env.token)
COPILOTO_EMAIL == Strip(env.email)
COPILOTO_PASSWORD == Strip(env.password)

\* validate_url raises; only pipeline_daily calls it
UrlRejected(url) == url = "" \/ url \notin {"http", "https"}
validate_url(url) == script = "pipeline_daily" /\ UrlRejected(url)

\* requests finds no adapter for the URL (MissingSchema, InvalidSchema)
NoAdapter(url) == url \notin {"http", "https"}

\* the retry budget of the adapter the session picks: the Retry policy is mounted
\* for https:// only, http:// keeps the session's default adapter without retries
MaxRetries(url) == IF url = "https" THEN RetryTotal ELSE 0

IsRetryAnyError(status, has_retry_after) == status >= 400
\* Retry.is_retry for a GET or POST under this policy: the status_forcelist, and with
\* respect_retry_after_header left at its default a response that bears Retry-After
is_retry(status, has_retry_after) ==
    \/ status \in status_forcelist
    \/ has_retry_after /\ status \in RETRY_AFTER_STATUS_CODES

\* the request ended without a response (connection or read error)
NoAnswer == resp.status = 0

RequestUrl == IF fpc \in {"signin_sent", "signin_response"}
              THEN COPILOTO_SIGNIN_URL ELSE COPILOTO_ENDPOINT

WillRetry ==
    /\ retries < MaxRetries(RequestUrl)
    /\ NoAnswer \/ is_retry(resp.status, resp.retry_after)

Response(s, ra, j, d, c) ==
    [status |-> s, retry_after |-> ra, json |-> j, data |-> d, content |-> c]

SigninData ==
    {[accessToken |-> <<"j">>],
     [token |-> <<" ", "j", " ">>],
     [data |-> [accessToken |-> <<"k">>]],
     [access_token |-> <<" ">>],
     [message |-> <<"o", "k">>]}

ErrorBody == <<"e">>

\* error answers; a few of them bear a Retry-After header
ErrorResponses ==
    {Response(s, FALSE, FALSE, <<>>, ErrorBody) : s \in Statuses \ {200}}
    \cup {Response(s, TRUE, FALSE, <<>>, ErrorBody) : s \in {401, 413, 503}}

SigninResponses ==
    {NoResponse} \cup ErrorResponses
    \cup {Response(200, FALSE, FALSE, <<>>, <<"h">>)}
    \cup {Response(200, FALSE, TRUE, d, <<>>) : d \in SigninData}

Blobs == {<<"c", "s", "v">>, <<>>}

DownloadResponses ==
    {NoResponse} \cup ErrorResponses
    \cup {Response(200, FALSE, FALSE, <<>>, b) : b \in Blobs}

\* data.get(key), None and "" alike as the empty text
Get(d, key) == IF key \in DOMAIN d THEN d[key] ELSE <<>>
Inner(d) == IF "data" \in DOMAIN d THEN d["data"] ELSE <<>>
OrElse(a, b) == IF a # <<>> THEN a ELSE b

ExtractToken(d) ==
    OrElse(Get(d, "accessToken"),
    OrElse(Get(d, "access_token"),
    OrElse(Get(d, "token"),
    OrElse(Get(Inner(d), "token"), Get(Inner(d), "accessToken")))))

AuthError(status) == status \in {401, 403}

RaisesAuthOnly(status) == AuthError(status)
\* the two status checks after a request: 401/403, then any status >= 400
RaisesForStatus(status) == AuthError(status) \/ status >= 400

OldLatest == Written(<<"o", "l", "d">>)

FetchStart ==
    /\ script \in {"pipeline_daily", "fetch_copiloto_vehicle_records"}
    /\ env \in [token : {<<>>, <<" ">>, <<"t">>}, email : {<<>>, <<"e">>},
                password : {<<>>, <<"p">>}, signin_url : UrlValues, endpoint : UrlValues]
    /\ fpc = "start" /\ retries = 0 /\ resp = NoResponse
    /\ token = <<>> /\ blob = <<>>
    /\ files \in [out_file : {Absent}, out_latest : {Absent, OldLatest}]
    /\ log_error = "" /\ exit_code = "none"

FetchInit ==
    AppInit({[csv |-> NoFile, master |-> NoFile, q |-> <<>>]}) /\ FetchStart

\* an exception reaches the script's except clause: log.error and sys.exit(1)
Fail(msg) ==
    /\ fpc' = "failed" /\ log_error' = msg /\ exit_code' = "1"
    /\ UNCHANGED <<script, env, retries, resp, token, blob, files>>

resolve_token ==
    /\ fpc = "start"
    /\ UNCHANGED vars
    /\ \/ /\ COPILOTO_TOKEN_ENV # <<>>
          /\ token' = COPILOTO_TOKEN_ENV /\ fpc' = "have_token"
          /\ UNCHANGED <<script, env, retries, resp, blob, files, log_error, exit_code>>
       \/ /\ COPILOTO_TOKEN_ENV = <<>>
          /\ validate_url(COPILOTO_SIGNIN_URL)
          /\ Fail("COPILOTO_SIGNIN_URL invalid")
       \/ /\ COPILOTO_TOKEN_ENV = <<>>
          /\ ~validate_url(COPILOTO_SIGNIN_URL)
          /\ COPILOTO_EMAIL = <<>> \/ COPILOTO_PASSWORD = <<>>
          /\ Fail("missing credentials")
       \/ /\ COPILOTO_TOKEN_ENV = <<>>
          /\ ~validate_url(COPILOTO_SIGNIN_URL)
          /\ COPILOTO_EMAIL # <<>> /\ COPILOTO_PASSWORD # <<>>
          /\ NoAdapter(COPILOTO_SIGNIN_URL)
          /\ Fail("request error")
       \/ /\ COPILOTO_TOKEN_ENV = <<>>
          /\ ~validate_url(COPILOTO_SIGNIN_URL)
          /\ COPILOTO_EMAIL # <<>> /\ COPILOTO_PASSWORD # <<>>
          /\ ~NoAdapter(COPILOTO_SIGNIN_URL)
          /\ fpc' = "signin_sent" /\ retries' = 0
          /\ UNCHANGED <<script, env, resp, token, blob, files, log_error, exit_code>>

\* the server answers the request in flight
SigninAnswered ==
    /\ fpc = "signin_sent"
    /\ UNCHANGED vars
    /\ \E r \in SigninResponses : resp' = r
    /\ fpc' = "signin_response"
    /\ UNCHANGED <<script, env, retries, token, blob, files, log_error, exit_code>>

DownloadAnswered ==
    /\ fpc = "download_sent"
    /\ UNCHANGED vars
    /\ \E r \in DownloadResponses : resp' = r
    /\ fpc' = "download_response"
    /\ UNCHANGED <<script, env, retries, token, blob, files, log_error, exit_code>>

\* the adapter sends the request again
AdapterRetry ==
    /\ fpc \in {"signin_response", "download_response"}
    /\ UNCHANGED vars
    /\ WillRetry
    /\ retries' = retries + 1
    /\ fpc' = IF fpc = "signin_response" THEN "signin_sent" ELSE "download_sent"
    /\ UNCHANGED <<script, env, resp, token, blob, files, log_error, exit_code>>

\* fetch_copiloto_token from the response on
fetch_copiloto_token ==
    /\ fpc = "signin_response"
    /\ UNCHANGED vars
    /\ ~WillRetry
    /\ \/ NoAnswer /\ Fail("request error")
       \/ AuthError(resp.status) /\ Fail("invalid credentials (401/403)")
       \/ ~AuthError(resp.status) /\ resp.status >= 400 /\ Fail("login failed")
       \/ ~NoAnswer /\ resp.status < 400 /\ ~resp.json /\ Fail("login response is not JSON")
       \/ /\ ~NoAnswer /\ resp.status < 400 /\ resp.json
          /\ Strip(ExtractToken(resp.data)) = <<>>
          /\ Fail("no token in login response")
       \/ /\ ~NoAnswer /\ resp.status < 400 /\ resp.json
          /\ Strip(ExtractToken(resp.data)) # <<>>
          /\ token' = Strip(ExtractToken(resp.data))
          /\ fpc' = "have_token"
          /\ UNCHANGED <<script, env, retries, resp, blob, files, log_error, exit_code>>

\* download_vehicle_records_csv up to the GET
download_vehicle_records_csv ==
    /\ fpc = "have_token"
    /\ UNCHANGED vars
    /\ \/ validate_url(COPILOTO_ENDPOINT) /\ Fail("COPILOTO_ENDPOINT invalid")
       \/ /\ ~validate_url(COPILOTO_ENDPOINT) /\ NoAdapter(COPILOTO_ENDPOINT)
          /\ Fail("request error")
       \/ /\ ~validate_url(COPILOTO_ENDPOINT) /\ ~NoAdapter(COPILOTO_ENDPOINT)
          /\ fpc' = "download_sent" /\ retries' = 0
          /\ UNCHANGED <<script, env, resp, token, blob, files, log_error, exit_code>>

\* download_vehicle_records_csv from the response on
DownloadReturn ==
    /\ fpc = "download_response"
    /\ UNCHANGED vars
    /\ ~WillRetry
    /\ \/ NoAnswer /\ Fail("request error")
       \/ AuthError(resp.status) /\ Fail("not authorised (401/403)")
       \/ ~AuthError(resp.status) /\ RaisesForStatus(resp.status) /\ Fail("download failed")
       \/ /\ ~NoAnswer /\ ~RaisesForStatus(resp.status)
          /\ blob' = resp.content /\ fpc' = "downloaded"
          /\ UNCHANGED <<script, env, retries, resp, token, files, log_error, exit_code>>

WriteOutFile ==
    /\ fpc = "downloaded"
    /\ UNCHANGED vars
    /\ files' = [files EXCEPT !.out_file = Written(blob)]
    /\ fpc' = "wrote_out_file"
    /\ UNCHANGED <<script, env, retries, resp, token, blob, log_error, exit_code>>

WriteLatest ==
    /\ fpc = "wrote_out_file"
    /\ UNCHANGED vars
    /\ files' = [files EXCEPT !.out_latest = Written(blob)]
    /\ fpc' = "done" /\ exit_code' = "0"
    /\ UNCHANGED <<script, env, retries, resp, token, blob, log_error>>

FetchNext ==
    \/ resolve_token \/ SigninAnswered \/ AdapterRetry \/ fetch_copiloto_token
    \/ download_vehicle_records_csv \/ DownloadAnswered \/ DownloadReturn
    \/ WriteOutFile \/ WriteLatest

FetchSpec == FetchInit /\ [][FetchNext]_<<vars, fetch>>

\* ------------------------------------------------------------- properties
Rows(df) == {df.rows[i] : i \in 1..Len(df.rows)}

ChannelNames ==
    {[ts |-> "can_timestamp", days |-> "days_can", cat |-> "estado_telemetria", limit |-> 30],
     [ts |-> "gps_timestamp", days |-> "days_gps", cat |-> "gps_status_any", limit |-> 15]}

Enriched == pc \notin {"start", "halted"}

\* the boundary table of the four categories
Documented(a) ==
    IF a <= 2 THEN "Conectado 0-2"
    ELSE IF a <= 14 THEN "Intermitente 3-14"
    ELSE IF a <= 30 THEN "Limitado 15-30+"
    ELSE "Desconectado 31+"

MasksTrue(ts, dias) ==
    Cardinality({n \in 1..5 :
        CASE n = 1 -> MaskNa(ts, dias)
          [] n = 2 -> MaskConectado(ts, dias)
          [] n = 3 -> MaskIntermitente(ts, dias)
          [] n = 4 -> MaskLimitado(ts, dias)
          [] n = 5 -> MaskDesconectado(ts, dias)})

\* C1: every row whose channel timestamp is present has the integer age today - day,
\* and its category is the documented one for that age (<= 2, 3..14, 15..30, >= 31);
\* exactly one of the masked assignments applies to it.
C1_Boundaries ==
    \A r \in Rows(df_status) : \A ch \in ChannelNames :
        r.c[ch.ts].k = "ts" =>
            /\ r.c[ch.days] = IntCell(Today - r.c[ch.ts].day)
            /\ r.c[ch.cat].label = Documented(Today - r.c[ch.ts].day)
            /\ MasksTrue(r.c[ch.ts], r.c[ch.days]) = 1

C1_Witness ==
    \E r \in Rows(df_status) :
        /\ r.c["can_timestamp"].k = "ts" /\ r.c["days_can"] = IntCell(-1)
        /\ r.c["estado_telemetria"].label = "Conectado 0-2"
        /\ r.c["gps_timestamp"].k = "ts" /\ r.c["days_gps"] = IntCell(31)
        /\ r.c["gps_status_any"].label = "Desconectado 31+"

\* the cell of column col in row i of the report as read, before enrichment
RawMissing(i, col) ==
    \/ col \notin csv_file.df.cols
    \/ csv_file.df.rows[i].c[col].k \in {"nan", "str"}

\* C2: after compute_connectivity every row of the report has, on both channels, a
\* category among the four, and it is 'Desconectado 31+' whenever the channel's
\* timestamp is missing, unparseable or its column absent; a report with an IMEI
\* column is enriched row for row without an error.
C2_MissingIsStalest ==
    /\ Enriched =>
         /\ Len(df_status.rows) = Len(csv_file.df.rows)
         /\ \A i \in 1..Len(df_status.rows) : \A ch \in ChannelNames :
              /\ \E n \in 1..Len(ORDER4) : df_status.rows[i].c[ch.cat].label = ORDER4[n]
              /\ RawMissing(i, ch.ts) => df_status.rows[i].c[ch.cat].label = "Desconectado 31+"
    /\ (pc = "halted" /\ err = "csv without IMEI") =>
         csv_file.df.cols \cap {"IMEI", "imei"} = {}

C2_Witness ==
    /\ pc = "status_loaded"
    /\ "can_timestamp" \notin csv_file.df.cols
    /\ "gps_timestamp" \in csv_file.df.cols
    /\ \E r \in Rows(df_status) :
         /\ r.c["estado_telemetria"].label = "Desconectado 31+"
         /\ r.c["gps_status_any"].label = "Desconectado 31+"

Aggregated == pc \in {"kpis", "done"}

RECURSIVE SumUnidades(_)
SumUnidades(s) == IF s = <<>> THEN 0 ELSE Head(s).unidades + SumUnidades(Tail(s))

RowsWith(catcol, label) == {i \in 1..Len(df_f.rows) : df_f.rows[i].c[catcol].label = label}

HistogramOk(counts, catcol) ==
    /\ Len(counts) = 4
    /\ \A n \in 1..4 :
         /\ counts[n].label = ORDER4[n]
         /\ counts[n].unidades = Cardinality(RowsWith(catcol, ORDER4[n]))
    /\ SumUnidades(counts) = total

\* C3: each channel's histogram lists exactly the four categories in canonical order,
\* each with the number of filtered rows in it (0 when there is none), and the four
\* counts add up to the total number of filtered rows, the empty table included.
C3_Histogram ==
    Aggregated =>
        /\ total = Len(df_f.rows)
        /\ HistogramOk(tele_counts, "estado_telemetria")
        /\ HistogramOk(gps_counts, "gps_status_any")

C3_Witness ==
    /\ Aggregated /\ total = 2
    /\ tele_counts[1].unidades = 0 /\ tele_counts[4].unidades = 2
    /\ gps_counts[1].unidades = 0 /\ gps_counts[2].unidades = 1 /\ gps_counts[3].unidades = 1

\* C4: each channel's ok_pct lies between 0 and 100 (hundredths: 0..10000) and is
\* exactly 0.0 when the filtered table is empty.
C4_PctRange ==
    Aggregated =>
        /\ tele_pct \in 0..10000 /\ gps_pct \in 0..10000
        /\ total = 0 => tele_pct = 0 /\ gps_pct = 0

C4_Witness ==
    /\ Aggregated /\ total = 0 /\ tele_pct = 0 /\ gps_pct = 0
    /\ Len(csv_file.df.rows) > 0

OkRows(ch) ==
    {i \in 1..Len(df_f.rows) :
        /\ df_f.rows[i].c[ch.ts].k = "ts"
        /\ Today - df_f.rows[i].c[ch.ts].day <= ch.limit}

ChannelOf(tscol) == CHOOSE ch \in ChannelNames : ch.ts = tscol

\* C5: each channel's ok_count is the number of filtered rows whose timestamp is
\* present and whose age is at most the threshold (30 telemetry, 15 GPS); the
\* ten-row scenario gives telemetry ok_count 6 and ok_pct 60.0.
C5_OkCount ==
    Aggregated =>
        /\ tele_ok = Cardinality(OkRows(ChannelOf("can_timestamp")))
        /\ gps_ok = Cardinality(OkRows(ChannelOf("gps_timestamp")))
        /\ csv_file = File(ScenarioFrame) => total = 10 /\ tele_ok = 6 /\ tele_pct = 6000

C5_Witness ==
    /\ Aggregated /\ csv_file = File(ScenarioFrame)
    /\ total = 10 /\ tele_ok = 6 /\ tele_pct = 6000 /\ gps_ok = 0

\* the IMEI cell of row i of the report as read, under either accepted spelling
ReportImei(i) == normalize_status_columns(csv_file.df).rows[i].c["IMEI"]

\* the roster's IMEI cells as read, under the first accepted header
RosterImeiCells ==
    LET m == StripHeaders(master_xlsx.df)
    IN {m.rows[j].c[col_imei(master_xlsx.df)] : j \in 1..Len(m.rows)}

Trimmed(cell) == Strip(AsStr(cell))

InRoster(i) == \E c \in RosterImeiCells : Trimmed(ReportImei(i)) = Trimmed(c)

Joined == pc \in {"filtered", "searched", "kpis", "done"}

\* C6: the roster filter keeps a report row exactly when its IMEI, as text and
\* trimmed, equals the trimmed text of some roster IMEI; rows outside the roster
\* are in no later table (filtered rows, total, problem units).
C6_RosterJoin ==
    Joined =>
        /\ pc = "filtered" =>
             \A i \in 1..Len(df_status.rows) :
                 df_status.rows[i].idx \in RowIdx(df_f) <=> InRoster(i)
        /\ \A i \in 1..Len(df_status.rows) :
             ~InRoster(i) => df_status.rows[i].idx \notin RowIdx(df_f) \cup RowIdx(df_probs)
        /\ Aggregated => total <= Cardinality({i \in 1..Len(df_status.rows) : InRoster(i)})

C6_Witness ==
    /\ pc = "filtered"
    /\ \E i \in 1..Len(df_status.rows) :
         /\ ReportImei(i) = IntCell(12)
         /\ RosterImeiCells = {StrCell(<<"1", "2", " ">>), StrCell(<<"2", "a">>)}
         /\ df_status.rows[i].idx \in RowIdx(df_f)
    /\ \E i \in 1..Len(df_status.rows) : df_status.rows[i].idx \notin RowIdx(df_f)

\* C7: filtering the roster-filtered table again by the same roster changes nothing.
C7_Idempotent ==
    pc = "filtered" => RosterFilter(df_f, allowed) = df_f

C7_Witness ==
    /\ pc = "filtered"
    /\ Len(df_f.rows) > 0 /\ Len(df_f.rows) < Len(df_status.rows)
    /\ RosterFilter(df_f, allowed) = df_f

ContainsIgnoreCase(text, sub) ==
    \E i \in 0..(Len(text) - Len(sub)) : Upper(SubSeq(text, i + 1, i + Len(sub))) = Upper(sub)

Matches(r, cols, qq) ==
    \E x \in {"IMEI", "VIN", "license_plate"} \cap cols :
        r.c[x].k # "nan" /\ ContainsIgnoreCase(AsStr(r.c[x]), qq)

SearchStepOk ==
    pc = "filtered" =>
        /\ pc' = "searched"
        /\ RowIdx(df_f') \subseteq RowIdx(df_f)
        /\ \A r \in Rows(df_f') : r \in Rows(df_f)
        /\ q' # <<>> => \A r \in Rows(df_f') : Matches(r, df_f.cols, q')
        /\ q' = <<>> => df_f' = df_f

NotFresh(label) == label \in {"Intermitente 3-14", "Limitado 15-30+", "Desconectado 31+"}

\* C9: a filtered row is among the problem units exactly when its telemetry category
\* or its GPS category is Intermitente, Limitado or Desconectado, that is, exactly
\* when not both are 'Conectado 0-2'; no filtered rows, no problem units.
C9_ProblemSet ==
    pc = "done" =>
        /\ \A r \in Rows(df_f) :
             /\ r \in Rows(df_probs) <=>
                  NotFresh(r.c["estado_telemetria"].label) \/ NotFresh(r.c["gps_status_any"].label)
             /\ r \notin Rows(df_probs) <=>
                  /\ r.c["estado_telemetria"].label = "Conectado 0-2"
                  /\ r.c["gps_status_any"].label = "Conectado 0-2"
        /\ Rows(df_probs) \subseteq Rows(df_f)
        /\ Len(df_probs.rows) = Cardinality(Rows(df_probs))
        /\ df_f.rows = <<>> => df_probs.rows = <<>>

C9_Witness ==
    /\ pc = "done"
    /\ \E r \in Rows(df_probs) :
         /\ r.c["estado_telemetria"].label = "Conectado 0-2"
         /\ r.c["gps_status_any"].label = "Intermitente 3-14"
    /\ \E r \in Rows(df_f) : r \notin Rows(df_probs)

ReportHasImei == csv_file.df.cols \cap {"IMEI", "imei"} # {}

RosterHasImei ==
    \E x \in master_xlsx.df.cols :
        \E n \in 1..Len(candidates) : StripName(x) = candidates[n]

NothingComputed ==
    /\ df_f = EmptyFrame /\ df_probs = EmptyFrame /\ allowed = {}
    /\ total = 0 /\ tele_counts = <<>> /\ gps_counts = <<>>

\* C10: a report without an IMEI column (IMEI or imei) stops the run at the load of
\* the report, a roster without one (any accepted header) at the load of the roster,
\* each with a diagnostic and before any filtering or aggregation.
C10_HaltsWithoutImei ==
    /\ (csv_file.exists /\ ~ReportHasImei) => pc \in {"start", "halted"}
    /\ (master_xlsx.exists /\ ~RosterHasImei) => pc \in {"start", "status_loaded", "halted"}
    /\ pc = "halted" => err # "" /\ NothingComputed
    /\ (pc = "halted" /\ csv_file.exists /\ ~ReportHasImei) => err = "csv without IMEI"
    /\ (pc = "halted" /\ csv_file.exists /\ ReportHasImei /\ master_xlsx.exists) =>
           err = "master without IMEI" /\ ~RosterHasImei

C10_Witness ==
    /\ pc = "halted" /\ err = "master without IMEI"
    /\ csv_file.exists /\ ReportHasImei /\ master_xlsx.exists /\ ~RosterHasImei

\* C13: the telemetry ok_count plus the telemetry histogram count of 'Desconectado 31+'
\* is the total number of filtered rows; equivalently ok_count is the sum of the
\* counts of Conectado 0-2, Intermitente 3-14 and Limitado 15-30+.
C13_TelemetryConsistent ==
    Aggregated =>
        /\ tele_ok + tele_counts[4].unidades = total
        /\ tele_ok = tele_counts[1].unidades + tele_counts[2].unidades + tele_counts[3].unidades
        /\ tele_counts[4].label = "Desconectado 31+"

C13_Witness ==
    /\ Aggregated /\ total = 2 /\ tele_ok = 1
    /\ tele_counts[3].unidades = 1 /\ tele_counts[4].unidades = 1
    /\ \E r \in Rows(df_f) : r.c["days_can"] = IntCell(30)
    /\ \E r \in Rows(df_f) : r.c["days_can"] = IntCell(31)

\* a step in which the adapter sends the request in flight again
Resent ==
    /\ fpc \in {"signin_response", "download_response"}
    /\ fpc' \in {"signin_sent", "download_sent"}

\* a response with status 401 or 403 has arrived
AuthAnswer ==
    /\ fpc \in {"signin_response", "download_response"}
    /\ resp.status \in {401, 403}

FailsAtOnce == fpc' = "failed" /\ exit_code' = "1" /\ retries' = retries

RetryAsStated ==
    /\ (Resent /\ ~NoAnswer) => resp.status \in {429, 500, 502, 503, 504}
    /\ retries' <= 4
    /\ AuthAnswer => FailsAtOnce

\* C11 as the specification states it: a request that got a response is sent again only
\* when the status is one of 429, 500, 502, 503, 504, at most 4 times, and a 401 or 403
\* response fails the run at once.
C11_AsStated == [][RetryAsStated]_fetch

RetryStepOk ==
    /\ Resent =>
           /\ \/ NoAnswer
              \/ resp.status \in {429, 500, 502, 503, 504}
              \/ resp.status = 413 /\ resp.retry_after
           /\ RequestUrl = "https"
           /\ retries' = retries + 1
    /\ retries' <= 4
    /\ AuthAnswer => FailsAtOnce

\* C11: a sign-in or download request is sent again only when no response arrived, or the
\* status is one of 429, 500, 502, 503, 504, or the status is 413 and the response bears a
\* Retry-After header, and only for an https:// URL; it is sent again at most 4 times;
\* a 401 or 403 response is never retried and fails the run at once with exit status 1.
C11_RetryPolicy == [][RetryStepOk]_fetch

C11_Witness ==
    /\ fpc = "failed" /\ exit_code = "1"
    /\ retries = 4 /\ resp.status = 503
    /\ token # <<>> /\ COPILOTO_ENDPOINT = "https"

NewLatest == files.out_latest \notin {Absent, OldLatest}

\* C12: the timestamped file and the latest alias are written only after a token was
\* resolved (the supplied token, or the sign-in's token when none is supplied) and the
\* download answered with a status below 400, and a finished run leaves the downloaded
\* blob in both; a failed run has a logged error, exit status 1 and has written no file;
\* without a supplied token and without credentials no request is ever sent.
C12_WritesOnlyAfterSuccess ==
    /\ files.out_file.exists =>
           /\ fpc \in {"wrote_out_file", "done"}
           /\ token # <<>> /\ ~NoAnswer /\ resp.status < 400
           /\ blob = resp.content /\ files.out_file.bytes = blob
    /\ NewLatest => fpc = "done"
    /\ fpc = "done" =>
           /\ files.out_file = Written(blob) /\ files.out_latest = Written(blob)
           /\ exit_code = "0" /\ log_error = ""
    /\ fpc = "failed" =>
           /\ exit_code = "1" /\ log_error # ""
           /\ ~files.out_file.exists /\ ~NewLatest
    /\ exit_code = "1" => fpc = "failed"
    /\ token # <<>> =>
           IF Strip(env.token) # <<>> THEN token = Strip(env.token)
           ELSE /\ Strip(env.email) # <<>> /\ Strip(env.password) # <<>>
                /\ \E d \in SigninData : token = Strip(ExtractToken(d))
    /\ fpc \in {"have_token", "download_sent", "download_response", "downloaded",
                "wrote_out_file", "done"} => token # <<>>
    /\ (Strip(env.token) = <<>> /\ (Strip(env.email) = <<>> \/ Strip(env.password) = <<>>)) =>
           fpc \in {"start", "failed"}

C12_Witness ==
    /\ fpc = "done" /\ exit_code = "0"
    /\ Strip(env.token) = <<>> /\ token = <<"j">>
    /\ retries = 2 /\ resp.status = 200
    /\ files.out_file = Written(<<"c", "s", "v">>)
    /\ files.out_latest = Written(<<"c", "s", "v">>)

====
